---------------------------- MODULE Spec2Model ----------------------------
(***************************************************************************)
(* Model of src/lambda_function.py: the Lex code hook of the               *)
(* "recommendPortfolio" intent.                                            *)
(*                                                                         *)
(* Python values that may be None are tagged records:                      *)
(*   None            the value None                                        *)
(*   Str(<<codes>>)  a str holding user text, one Unicode code point per   *)
(*                   element, so that int() can be modelled by what it     *)
(*                   does: Str(<<55, 48>>) is "70"                         *)
(*   PyInt(n)        an int                                                *)
(*   NaN             float("nan")                                          *)
(*   Text("...")     a str built from literals of the program              *)
(* dicts are records; a str that is never None and is only compared or     *)
(* concatenated (intent name, invocation source, dialog action type) is a  *)
(* plain string.                                                           *)
(***************************************************************************)
EXTENDS FiniteSets, Integers, Sequences, TLC

VARIABLES
    received,           \* the request as the platform sent it (snapshot)
    event,              \* the request object held by the handler (mutable)
    validation_result,  \* local of recommend_portfolio
    invest_advice,      \* local of recommend_portfolio
    response,           \* value returned by lambda_handler
    error,              \* exception raised by lambda_handler
    pc,                 \* "ready": request pending, "done": handler returned
    elicited            \* slots elicited since the user last supplied a value

vars == <<received, event, validation_result, invest_advice, response,
          error, pc, elicited>>

-----------------------------------------------------------------------------
(* Python values *)

None == [t |-> "None"]
NaN == [t |-> "nan"]
Str(chars) == [t |-> "str", v |-> chars]
PyInt(n) == [t |-> "int", n |-> n]
Text(s) == [t |-> "text", s |-> s]

(* The code point of digit zero of every Unicode decimal digit block        *)
(* (category Nd, Unicode 14.0.0): the block's ten digits follow it.         *)
DecimalZeros ==
    {48, 1632, 1776, 1984, 2406, 2534, 2662, 2790, 2918, 3046, 3174, 3302,
     3430, 3558, 3664, 3792, 3872, 4160, 4240, 6112, 6160, 6470, 6608,
     6784, 6800, 6992, 7088, 7232, 7248, 42528, 43216, 43264, 43472, 43504,
     43600, 44016, 65296, 66720, 68912, 69734, 69872, 69942, 70096, 70384,
     70736, 70864, 71248, 71360, 71472, 71904, 72016, 72784, 73040, 73120,
     92768, 92864, 93008, 120782, 120792, 120802, 120812, 120822, 123200,
     123632, 125264, 130032}

IsDigit(c) == \E z \in DecimalZeros : c \in z..(z + 9)

DigitVal(c) == c - (CHOOSE z \in DecimalZeros : c \in z..(z + 9))

(* The characters int() strips from both ends: tab, LF, VT, FF, CR, space, *)
(* NEL, NBSP and the Unicode space separators.                             *)
Whitespace ==
    {9, 10, 11, 12, 13, 32, 133, 160, 5760} \cup (8192..8202)
        \cup {8232, 8233, 8239, 8287, 12288}

(* sys.get_int_max_str_digits(): int() refuses a text of more digits. *)
MaxStrDigits == 4300

-----------------------------------------------------------------------------
(* int(n).  For a str: strip whitespace, optional sign, decimal digits that *)
(* may be separated by single underscores, at most MaxStrDigits digits;     *)
(* anything else is a ValueError.  int(float("nan")) is a ValueError too.   *)

RECURSIVE lstrip(_)
lstrip(s) == IF s # <<>> /\ Head(s) \in Whitespace THEN lstrip(Tail(s)) ELSE s

RECURSIVE rstrip(_)
rstrip(s) ==
    IF s # <<>> /\ s[Len(s)] \in Whitespace
    THEN rstrip(SubSeq(s, 1, Len(s) - 1))
    ELSE s

strip(s) == rstrip(lstrip(s))

(* "+" is 43, "-" is 45, "_" is 95 *)
IsSigned(s) == s # <<>> /\ Head(s) \in {43, 45}

Unsigned(s) == IF IsSigned(s) THEN Tail(s) ELSE s

(* The digits of a digit text: its characters that are no underscore. *)
DigitCount(b) == Cardinality({i \in 1..Len(b) : b[i] # 95})

IsDecimal(b) ==
    /\ b # <<>>
    /\ DigitCount(b) <= MaxStrDigits
    /\ \A i \in 1..Len(b) :
          \/ IsDigit(b[i])
          \/ /\ b[i] = 95
             /\ i > 1
             /\ i < Len(b)
             /\ IsDigit(b[i - 1])
             /\ IsDigit(b[i + 1])

RECURSIVE DecimalValue(_, _)
DecimalValue(b, acc) ==
    IF b = <<>> THEN acc
    ELSE IF Head(b) = 95 THEN DecimalValue(Tail(b), acc)
    ELSE DecimalValue(Tail(b), 10 * acc + DigitVal(Head(b)))

IntRaisesValueError(n) ==
    \/ n.t = "nan"
    \/ n.t = "str" /\ ~IsDecimal(Unsigned(strip(n.v)))

IntOf(n) ==
    IF n.t = "int" THEN n
    ELSE LET s == strip(n.v)
             m == DecimalValue(Unsigned(s), 0)
         IN  PyInt(IF IsSigned(s) /\ Head(s) = 45 THEN 0 - m ELSE m)

parse_int(n) == IF IntRaisesValueError(n) THEN NaN ELSE IntOf(n)

(* Python's < and > on an int or float("nan"): every comparison with nan   *)
(* is False.                                                               *)
Lt(a, b) == a.t = "int" /\ b.t = "int" /\ a.n < b.n

Gt(a, b) == a.t = "int" /\ b.t = "int" /\ a.n > b.n


-----------------------------------------------------------------------------
(* Functionality helpers *)

build_validation_result(is_valid, violated_slot, message_content) ==
    IF message_content = None
    THEN [isValid |-> is_valid, violatedSlot |-> violated_slot]
    ELSE [isValid |-> is_valid,
          violatedSlot |-> violated_slot,
          message |-> [contentType |-> "PlainText", content |-> message_content]]

(* Dialog action helpers *)

get_slots(intent_request) == intent_request.currentIntent.slots

elicit_slot(session_attributes, intent_name, slots, slot_to_elicit, message) ==
    [sessionAttributes |-> session_attributes,
     dialogAction |-> [type |-> "ElicitSlot",
                       intentName |-> intent_name,
                       slots |-> slots,
                       slotToElicit |-> slot_to_elicit,
                       message |-> message]]

delegate(session_attributes, slots) ==
    [sessionAttributes |-> session_attributes,
     dialogAction |-> [type |-> "Delegate", slots |-> slots]]

close(session_attributes, fulfillment_state, message) ==
    [sessionAttributes |-> session_attributes,
     dialogAction |-> [type |-> "Close",
                       fulfillmentState |-> fulfillment_state,
                       message |-> message]]

-----------------------------------------------------------------------------
(* validate_data *)

AgeMessage ==
    Text("You entered an age that does not fall within the age range for this utility. Please enter an age between 1 and 65.")

AmountMessage ==
    Text("You must enter an investment amount greater than or equal to $5000.")

RiskMessage ==
    Text("You did not enter a valid risk level for this utility. Please enter either none or low or medium or high.")

RiskNone == Str(<<110, 111, 110, 101>>) (* "none" *)
RiskLow == Str(<<108, 111, 119>>) (* "low" *)
RiskMedium == Str(<<109, 101, 100, 105, 117, 109>>) (* "medium" *)
RiskHigh == Str(<<104, 105, 103, 104>>) (* "high" *)

(* Mutant: the upper bound excludes 65. *)
AgeViolated_excludes_65(age) ==
    /\ age # None
    /\ \/ Lt(parse_int(age), parse_int(PyInt(0)))
       \/ Gt(parse_int(age), parse_int(PyInt(64)))

AgeViolated(age) ==
    /\ age # None
    /\ \/ Lt(parse_int(age), parse_int(PyInt(0)))
       \/ Gt(parse_int(age), parse_int(PyInt(65)))

(* Mutant: 5000 itself is rejected. *)
AmountViolated_rejects_5000(investmentAmount) ==
    /\ investmentAmount # None
    /\ Lt(parse_int(investmentAmount), PyInt(5001))

AmountViolated(investmentAmount) ==
    /\ investmentAmount # None
    /\ Lt(parse_int(investmentAmount), PyInt(5000))

RiskViolated(riskLevel) ==
    /\ riskLevel # None
    /\ riskLevel # RiskNone
    /\ riskLevel # RiskLow
    /\ riskLevel # RiskMedium
    /\ riskLevel # RiskHigh

validate_data(age, investmentAmount, riskLevel, intent_request) ==
    IF AgeViolated(age)
    THEN build_validation_result(FALSE, Text("age"), AgeMessage)
    ELSE IF AmountViolated(investmentAmount)
    THEN build_validation_result(FALSE, Text("investmentAmount"), AmountMessage)
    ELSE IF RiskViolated(riskLevel)
    THEN build_validation_result(FALSE, Text("riskLevel"), RiskMessage)
    ELSE build_validation_result(TRUE, None, None)

-----------------------------------------------------------------------------
(* get_advice *)

(* Mutant: "high" is matched and the fallback is the medium portfolio. *)
get_advice_fallback_medium(risklevel) ==
    IF risklevel = RiskNone THEN Text("100% bonds (AGG), 0% equities (SPY)")
    ELSE IF risklevel = RiskLow THEN Text("60% bonds (ACG), 40% equities (SPY)")
    ELSE IF risklevel = RiskHigh THEN Text("20% bonds (ACG), 80% equities (SPY)")
    ELSE Text("40% bonds (ACG), 60% equities (SPY)")

get_advice(risklevel) ==
    IF risklevel = RiskNone THEN Text("100% bonds (AGG), 0% equities (SPY)")
    ELSE IF risklevel = RiskLow THEN Text("60% bonds (ACG), 40% equities (SPY)")
    ELSE IF risklevel = RiskMedium THEN Text("40% bonds (ACG), 60% equities (SPY)")
    ELSE Text("20% bonds (ACG), 80% equities (SPY)")

(* The format string of the closing message: the text before and after {}. *)
AdvicePrefix ==
    "Based on your risk level, it is recommended that your portfolio should be "

AdviceSuffix == "\n            "

-----------------------------------------------------------------------------
(* Handlers.  A call's outcome is the request object as the call leaves it *)
(* (slots are mutated in place), the handler's locals, and either the      *)
(* returned response (ret) or the raised exception (raised).               *)

(* Mutant: every source but the fulfillment hook is validated. *)
is_dialog_hook_unless_fulfillment(source) == source # "FulfillmentCodeHook"

(* source == "DialogCodeHook" *)
is_dialog_hook(source) == source = "DialogCodeHook"

(* Mutant: every slot is cleaned, not only the violated one. *)
clean_slot_wipes_all(slots, violated_slot) == [k \in DOMAIN slots |-> None]

(* Mutant: the violated slot keeps its value. *)
clean_slot_keeps_value(slots, violated_slot) == slots

(* slots[validation_result["violatedSlot"]] = None *)
clean_slot(slots, violated_slot) == [slots EXCEPT ![violated_slot.s] = None]

(* A dict lookup of a key the dict lacks raises KeyError. *)
KeyError(key) == [type |-> "KeyError", args |-> key]

Raise(intent_request, result, advice, exception) ==
    [intent_request |-> intent_request,
     validation_result |-> result,
     invest_advice |-> advice,
     raised |-> exception,
     ret |-> None]

Return(intent_request, result, advice, value) ==
    [intent_request |-> intent_request,
     validation_result |-> result,
     invest_advice |-> advice,
     raised |-> None,
     ret |-> value]

(* The slots in the order lines 134-137 read them. *)
SlotKeys == <<"firstname", "age", "investmentAmount", "riskLevel">>

recommend_portfolio(intent_request) ==
    LET slots == get_slots(intent_request)
        missing == {i \in 1..4 : SlotKeys[i] \notin DOMAIN slots}
        age == slots.age
        investmentAmount == slots.investmentAmount
        riskLevel == slots.riskLevel
        source == intent_request.invocationSource
        has_session == "sessionAttributes" \in DOMAIN intent_request
        result == validate_data(age, investmentAmount, riskLevel, intent_request)
        cleaned == clean_slot(slots, result.violatedSlot)
        mutated == [intent_request EXCEPT !.currentIntent.slots = cleaned]
        advice == get_advice(riskLevel)
    IN  IF "slots" \notin DOMAIN intent_request.currentIntent
        THEN Raise(intent_request, None, None, KeyError("slots"))
        ELSE IF missing # {}
        THEN Raise(intent_request, None, None,
                   KeyError(SlotKeys[CHOOSE i \in missing :
                                        \A j \in missing : i <= j]))
        ELSE IF "invocationSource" \notin DOMAIN intent_request
        THEN Raise(intent_request, None, None, KeyError("invocationSource"))
        ELSE IF is_dialog_hook(source)
        THEN IF ~result.isValid
             THEN IF ~has_session
                  THEN Raise(mutated, result, None,
                             KeyError("sessionAttributes"))
                  ELSE Return(mutated, result, None,
                              elicit_slot(intent_request.sessionAttributes,
                                          intent_request.currentIntent.name,
                                          cleaned,
                                          result.violatedSlot,
                                          result.message))
             ELSE IF ~has_session
                  THEN Raise(intent_request, result, None,
                             KeyError("sessionAttributes"))
                  ELSE Return(intent_request, result, None,
                              delegate(intent_request.sessionAttributes,
                                       get_slots(intent_request)))
        ELSE IF ~has_session
        THEN Raise(intent_request, None, advice, KeyError("sessionAttributes"))
        ELSE Return(intent_request, None, advice,
                    close(intent_request.sessionAttributes,
                          "Fulfilled",
                          [contentType |-> "PlainText",
                           content |-> Text(AdvicePrefix \o advice.s
                                              \o AdviceSuffix)]))

(* Mutant: every intent is handled as recommendPortfolio. *)
dispatch_any_intent(intent_request) == recommend_portfolio(intent_request)

dispatch(intent_request) ==
    IF "currentIntent" \notin DOMAIN intent_request
    THEN Raise(intent_request, None, None, KeyError("currentIntent"))
    ELSE IF "name" \notin DOMAIN intent_request.currentIntent
    THEN Raise(intent_request, None, None, KeyError("name"))
    ELSE LET intent_name == intent_request.currentIntent.name
         IN  IF intent_name = "recommendPortfolio"
             THEN recommend_portfolio(intent_request)
             ELSE Raise(intent_request, None, None,
                        [type |-> "Exception",
                         args |-> "Intent with name " \o intent_name
                                    \o " not supported"])

lambda_handler(ev, context) == dispatch(ev)

-----------------------------------------------------------------------------
(* Requests the platform may send *)

AgeMargin == 2
AmountMargin == 2

RECURSIVE DecimalDigits(_)
DecimalDigits(n) ==
    IF n < 10 THEN <<48 + n>>
    ELSE Append(DecimalDigits(n \div 10), 48 + (n % 10))

IntToStr(n) == IF n < 0 THEN <<45>> \o DecimalDigits(0 - n) ELSE DecimalDigits(n)

AgeInts ==
    ((0 - AgeMargin)..AgeMargin)
        \cup ((65 - AgeMargin)..(65 + AgeMargin))
        \cup {30, 70}

AmountInts ==
    ((5000 - AmountMargin)..(5000 + AmountMargin)) \cup {0 - 1, 0, 10000}

AgeValues ==
    {None}
        \cup {Str(IntToStr(n)) : n \in AgeInts}
        \cup {PyInt(0 - 1), PyInt(0), PyInt(65), PyInt(66)}
        \cup {Str(<<>>),
              Str(<<97, 98, 99>>),          (* "abc" *)
              Str(<<51, 46, 53>>),          (* "3.5" *)
              Str(<<32, 52, 50, 32>>),      (* " 42 " *)
              Str(<<43, 55, 48>>),          (* "+70" *)
              Str(<<54, 95, 54>>),          (* "6_6" *)
              Str(<<45>>),                  (* "-" *)
              Str(<<9, 55, 48>>),           (* "\t70" *)
              Str(<<54, 53, 13, 10>>),      (* "65\r\n" *)
              Str(<<160, 52, 50, 8195>>),   (* NBSP "42" EM SPACE *)
              Str(<<28, 52, 50>>),          (* FS "42": no whitespace of int() *)
              Str(<<1639, 1632>>),          (* "70" in Arabic-Indic digits *)
              Str(<<65302, 65301>>),        (* "65" in fullwidth digits *)
              Str(<<45, 2407>>)}            (* "-1" with a Devanagari digit *)

AmountValues ==
    {None}
        \cup {Str(IntToStr(n)) : n \in AmountInts}
        \cup {PyInt(4999), PyInt(5000)}
        \cup {Str(<<>>),
              Str(<<97, 98, 99>>),               (* "abc" *)
              Str(<<36, 53, 48, 48, 48>>),       (* "$5000" *)
              Str(<<52, 95, 57, 57, 57>>),       (* "4_999" *)
              Str(<<12, 52, 57, 57, 57>>),       (* "\f4999" *)
              Str(<<53, 48, 48, 48, 10>>),       (* "5000\n" *)
              Str(<<1637, 1632, 1632, 1632>>)}   (* "5000" in Arabic-Indic *)

RiskValues ==
    {None, RiskNone, RiskLow, RiskMedium, RiskHigh,
     Str(<<72, 105, 103, 104>>),        (* "High" *)
     Str(<<76, 79, 87>>),               (* "LOW" *)
     Str(<<>>),
     Str(<<108, 111, 119, 32>>),        (* "low " *)
     Str(<<114, 105, 115, 107, 121>>)}  (* "risky" *)

FirstNames == {None, Str(<<65, 108>>)}  (* "Al" *)

SlotValues(slot) ==
    IF slot = "age" THEN AgeValues
    ELSE IF slot = "investmentAmount" THEN AmountValues
    ELSE IF slot = "riskLevel" THEN RiskValues
    ELSE FirstNames

(* A text of one digit more than int() converts ("1" repeated). *)
TooManyDigits == [i \in 1..(MaxStrDigits + 1) |-> 49]

LongAgeSlots ==
    [firstname : {None},
     age : {Str(TooManyDigits)},
     investmentAmount : {None, Str(IntToStr(0))},
     riskLevel : {None}]

Slots ==
    [firstname : FirstNames, age : AgeValues,
     investmentAmount : AmountValues, riskLevel : RiskValues]
        \cup LongAgeSlots

IntentNames == {"recommendPortfolio", "RecommendPortfolio", "unknownIntent"}

InvocationSources == {"DialogCodeHook", "dialogCodeHook", "FulfillmentCodeHook"}

SessionAttributes == {None, [user |-> "u1"]}

Requests ==
    [currentIntent : [name : IntentNames, slots : Slots],
     invocationSource : InvocationSources,
     sessionAttributes : SessionAttributes]

-----------------------------------------------------------------------------
(* The dialog *)

Init ==
    /\ received \in Requests
    /\ event = received
    /\ validation_result = None
    /\ invest_advice = None
    /\ response = None
    /\ error = None
    /\ pc = "ready"
    /\ elicited = <<>>

IsElicit(r) == r # None /\ r.dialogAction.type = "ElicitSlot"

IsDelegate(r) == r # None /\ r.dialogAction.type = "Delegate"

IsClose(r) == r # None /\ r.dialogAction.type = "Close"

(* The platform invokes the handler on the pending request. *)
LambdaHandler ==
    /\ pc = "ready"
    /\ LET out == lambda_handler(event, None)
       IN  /\ event' = out.intent_request
           /\ validation_result' = out.validation_result
           /\ invest_advice' = out.invest_advice
           /\ response' = out.ret
           /\ error' = out.raised
           /\ elicited' = IF IsElicit(out.ret)
                          THEN Append(elicited, out.ret.dialogAction.slotToElicit.s)
                          ELSE elicited
    /\ pc' = "done"
    /\ UNCHANGED received

(* After ElicitSlot the platform calls the hook again with the slots the   *)
(* response returned, the user having supplied no new value.               *)
Reprompt ==
    /\ pc = "done"
    /\ IsElicit(response)
    /\ received' = [event EXCEPT
                       !.currentIntent.slots = response.dialogAction.slots]
    /\ event' = received'
    /\ validation_result' = None
    /\ invest_advice' = None
    /\ response' = None
    /\ error' = None
    /\ pc' = "ready"
    /\ UNCHANGED elicited

(* After ElicitSlot the user answers the prompt: the next request carries  *)
(* the returned slots with a new value in the elicited slot.               *)
UserSupplies ==
    /\ pc = "done"
    /\ IsElicit(response)
    /\ LET slot == response.dialogAction.slotToElicit.s
       IN  \E v \in SlotValues(slot) \ {None} :
               received' = [event EXCEPT !.currentIntent.slots =
                               [response.dialogAction.slots EXCEPT ![slot] = v]]
    /\ event' = received'
    /\ validation_result' = None
    /\ invest_advice' = None
    /\ response' = None
    /\ error' = None
    /\ pc' = "ready"
    /\ elicited' = <<>>

Next == LambdaHandler \/ Reprompt \/ UserSupplies

Spec == Init /\ [][Next]_vars

-----------------------------------------------------------------------------
(* Vocabulary of the properties, stated on the request as it was sent. *)

SentSlots == received.currentIntent.slots

(* validate_data has run on the request and returned. *)
Validated == pc = "done" /\ validation_result # None

(* The value is an int, or a str that int() converts. *)
Parses(v) == v.t = "int" \/ (v.t = "str" /\ ~IntRaisesValueError(v))

NumberOf(v) == IntOf(v).n

Present(v) == v # None

Unparseable(v) == Present(v) /\ ~Parses(v)

ValidRiskLevels == {RiskNone, RiskLow, RiskMedium, RiskHigh}

(* A present value breaks its slot's rule: an age that is no integer in    *)
(* 0..65, an amount that is no integer of at least 5000 (a value that     *)
(* cannot be parsed is folded into the slot's range violation), a risk    *)
(* level outside the four literals.                                       *)
BreaksRule(slot, v) ==
    /\ Present(v)
    /\ IF slot = "age"
       THEN ~Parses(v) \/ NumberOf(v) < 0 \/ NumberOf(v) > 65
       ELSE IF slot = "investmentAmount"
       THEN ~Parses(v) \/ NumberOf(v) < 5000
       ELSE IF slot = "riskLevel"
       THEN v \notin ValidRiskLevels
       ELSE FALSE

CheckOrder == <<"age", "investmentAmount", "riskLevel">>

Broken(slots) == {i \in 1..3 : BreaksRule(CheckOrder[i], slots[CheckOrder[i]])}

FirstBroken(slots) ==
    CheckOrder[CHOOSE i \in Broken(slots) : \A j \in Broken(slots) : i <= j]

AbsentOrValidAge(v) ==
    ~Present(v) \/ (Parses(v) /\ 0 <= NumberOf(v) /\ NumberOf(v) <= 65)

AbsentOrValidAmount(v) == ~Present(v) \/ (Parses(v) /\ NumberOf(v) >= 5000)

AbsentOrValidRisk(v) == ~Present(v) \/ v \in ValidRiskLevels

ValidResult == [isValid |-> TRUE, violatedSlot |-> None]

Violation(slot, message) ==
    [isValid |-> FALSE,
     violatedSlot |-> Text(slot),
     message |-> [contentType |-> "PlainText", content |-> message]]

-----------------------------------------------------------------------------
(* C1: validate_data, for a present age that parses to an integer a, with  *)
(* investmentAmount and riskLevel each absent or valid: the result is      *)
(* valid when 0 <= a <= 65 and is the violation on slot "age" with the age *)
(* message when a < 0 or a > 65.                                           *)
C1_AgeRange ==
    ( /\ Validated
      /\ Present(SentSlots.age)
      /\ Parses(SentSlots.age)
      /\ AbsentOrValidAmount(SentSlots.investmentAmount)
      /\ AbsentOrValidRisk(SentSlots.riskLevel) )
    => LET a == NumberOf(SentSlots.age)
       IN  /\ (0 <= a /\ a <= 65) => validation_result = ValidResult
           /\ (a < 0 \/ a > 65)
                 => validation_result = Violation("age", AgeMessage)

C1_Witness ==
    /\ Validated
    /\ SentSlots.age = Str(<<54, 53>>) (* "65" *)
    /\ SentSlots.investmentAmount = Str(<<53, 48, 48, 48>>) (* "5000" *)
    /\ SentSlots.riskLevel = RiskHigh
    /\ validation_result = ValidResult

(* C2: validate_data routes a present age or investmentAmount that cannot  *)
(* be parsed as an integer to that slot's violation; it is never accepted  *)
(* as valid.                                                               *)
C2_UnparseableRejected ==
    Validated
    => /\ Unparseable(SentSlots.age)
            => validation_result = Violation("age", AgeMessage)
       /\ ( /\ AbsentOrValidAge(SentSlots.age)
            /\ Unparseable(SentSlots.investmentAmount) )
            => validation_result = Violation("investmentAmount", AmountMessage)

(* C3: validate_data names the earliest slot, in the order age,            *)
(* investmentAmount, riskLevel, whose value is present and breaks its      *)
(* rule; an absent slot is never reported; the result is valid, with null  *)
(* violated slot and no message, exactly when no present slot breaks its   *)
(* rule.                                                                   *)
C3_FirstViolation ==
    Validated
    => /\ (Broken(SentSlots) = {}) <=> (validation_result = ValidResult)
       /\ (Broken(SentSlots) # {})
            => /\ ~validation_result.isValid
               /\ validation_result.violatedSlot = Text(FirstBroken(SentSlots))
               /\ Present(SentSlots[validation_result.violatedSlot.s])
               /\ "message" \in DOMAIN validation_result

(* C4: validate_data, for a present investmentAmount that parses to an     *)
(* integer m, with age absent or in range and riskLevel absent or valid:   *)
(* the result is valid when m >= 5000 and is the violation on slot         *)
(* "investmentAmount" when m < 5000.                                       *)
C4_AmountMinimum ==
    ( /\ Validated
      /\ Present(SentSlots.investmentAmount)
      /\ Parses(SentSlots.investmentAmount)
      /\ AbsentOrValidAge(SentSlots.age)
      /\ AbsentOrValidRisk(SentSlots.riskLevel) )
    => LET m == NumberOf(SentSlots.investmentAmount)
       IN  /\ (m >= 5000) => validation_result = ValidResult
           /\ (m < 5000)
                 => validation_result
                        = Violation("investmentAmount", AmountMessage)

C4_Witness ==
    /\ Validated
    /\ SentSlots.investmentAmount = Str(<<52, 57, 57, 57>>) (* "4999" *)
    /\ SentSlots.age = Str(<<48>>) (* "0" *)
    /\ validation_result = Violation("investmentAmount", AmountMessage)

(* C5: in the validation phase, whenever validate_data reports a           *)
(* violation, the response is ElicitSlot for the violated slot, with the   *)
(* validator's message, the request's intent name and session attributes,  *)
(* and the request's slots with only the violated slot set to null.        *)
C5_ElicitOnViolation ==
    (Validated /\ ~validation_result.isValid)
    => /\ error = None
       /\ response =
            [sessionAttributes |-> received.sessionAttributes,
             dialogAction |->
                [type |-> "ElicitSlot",
                 intentName |-> received.currentIntent.name,
                 slots |-> [k \in DOMAIN SentSlots |->
                               IF k = validation_result.violatedSlot.s
                               THEN None ELSE SentSlots[k]],
                 slotToElicit |-> validation_result.violatedSlot,
                 message |-> validation_result.message]]

C5_Witness ==
    /\ Validated
    /\ received.invocationSource = "DialogCodeHook"
    /\ SentSlots.age = Str(<<55, 48>>) (* "70" *)
    /\ Present(SentSlots.firstname)
    /\ Present(SentSlots.investmentAmount)
    /\ IsElicit(response)
    /\ response.dialogAction.slotToElicit = Text("age")
    /\ response.dialogAction.slots.age = None
    /\ response.dialogAction.slots.firstname = SentSlots.firstname

(* C6: in the validation phase, whenever validate_data reports success,    *)
(* the response is Delegate with every slot of the request unchanged and   *)
(* the request's session attributes; Delegate is never produced when some  *)
(* present slot breaks its rule.                                           *)
C6_DelegateOnSuccess ==
    /\ (Validated /\ validation_result.isValid)
         => /\ error = None
            /\ event = received
            /\ response =
                 [sessionAttributes |-> received.sessionAttributes,
                  dialogAction |-> [type |-> "Delegate", slots |-> SentSlots]]
    /\ (pc = "done" /\ IsDelegate(response)) => Broken(SentSlots) = {}

(* C7: in the fulfillment phase (any invocationSource other than           *)
(* "DialogCodeHook"), for any slot values, no validation is run, no slot   *)
(* is changed, and the response is Close with fulfillmentState             *)
(* "Fulfilled", the request's session attributes, and a message whose      *)
(* content embeds the advice for the request's riskLevel.                  *)
C7_FulfillmentCloses ==
    ( /\ pc = "done"
      /\ received.currentIntent.name = "recommendPortfolio"
      /\ received.invocationSource # "DialogCodeHook" )
    => /\ validation_result = None
       /\ error = None
       /\ event = received
       /\ response =
            [sessionAttributes |-> received.sessionAttributes,
             dialogAction |->
                [type |-> "Close",
                 fulfillmentState |-> "Fulfilled",
                 message |->
                    [contentType |-> "PlainText",
                     content |-> Text(AdvicePrefix
                                        \o get_advice(SentSlots.riskLevel).s
                                        \o AdviceSuffix)]]]

C7_Witness ==
    /\ pc = "done"
    /\ received.invocationSource = "dialogCodeHook"
    /\ Broken(SentSlots) = {1, 2, 3}
    /\ IsClose(response)
    /\ response.dialogAction.fulfillmentState = "Fulfilled"
    /\ event = received

(* C8: for every request whose intent name is not exactly                  *)
(* "recommendPortfolio" an error is raised, no response is produced and    *)
(* the request's slots are left unchanged; for "recommendPortfolio" the    *)
(* result is the response of recommend_portfolio.                          *)
C8_UnsupportedIntentRaises ==
    pc = "done"
    => IF received.currentIntent.name = "recommendPortfolio"
       THEN /\ error = None
            /\ response = recommend_portfolio(received).ret
            /\ response # None
       ELSE /\ error = [type |-> "Exception",
                        args |-> "Intent with name "
                                   \o received.currentIntent.name
                                   \o " not supported"]
            /\ response = None
            /\ validation_result = None
            /\ invest_advice = None
            /\ event = received

C8_Witness ==
    /\ pc = "done"
    /\ received.currentIntent.name = "RecommendPortfolio"
    /\ received.invocationSource = "DialogCodeHook"
    /\ Broken(SentSlots) # {}
    /\ error # None
    /\ response = None

(* C9: get_advice maps "none", "low" and "medium" to their portfolios and  *)
(* every other input ("high", an unrecognised or differently-cased string, *)
(* null) to "20% bonds (ACG), 80% equities (SPY)", and never fails.        *)
C9_AdviceTable ==
    ( /\ pc = "done"
      /\ received.currentIntent.name = "recommendPortfolio"
      /\ received.invocationSource # "DialogCodeHook" )
    => /\ error = None
       /\ invest_advice # None
       /\ LET r == SentSlots.riskLevel
          IN  /\ (r = Str(<<110, 111, 110, 101>>) (* "none" *))
                    => invest_advice.s = "100% bonds (AGG), 0% equities (SPY)"
              /\ (r = Str(<<108, 111, 119>>) (* "low" *))
                    => invest_advice.s = "60% bonds (ACG), 40% equities (SPY)"
              /\ (r = Str(<<109, 101, 100, 105, 117, 109>>) (* "medium" *))
                    => invest_advice.s = "40% bonds (ACG), 60% equities (SPY)"
              /\ (r \notin {Str(<<110, 111, 110, 101>>),
                            Str(<<108, 111, 119>>),
                            Str(<<109, 101, 100, 105, 117, 109>>)})
                    => invest_advice.s = "20% bonds (ACG), 80% equities (SPY)"

C9_Witness ==
    /\ pc = "done"
    /\ SentSlots.riskLevel = Str(<<76, 79, 87>>) (* "LOW" *)
    /\ invest_advice = Text("20% bonds (ACG), 80% equities (SPY)")

(* C10: over successive DialogCodeHook requests that each carry the slots  *)
(* of the previous ElicitSlot response with no new value, no slot is       *)
(* elicited twice, the slots are elicited in the order age,                *)
(* investmentAmount, riskLevel, and Delegate is reached after at most      *)
(* three ElicitSlot responses.                                             *)
RankOf(slot) == CHOOSE i \in 1..3 : CheckOrder[i] = slot

C10_ElicitOnceInOrder ==
    /\ Len(elicited) <= 3
    /\ \A i \in 1..Len(elicited) :
          elicited[i] \in {"age", "investmentAmount", "riskLevel"}
    /\ \A i, j \in 1..Len(elicited) :
          i < j => RankOf(elicited[i]) < RankOf(elicited[j])
    /\ \A i \in 1..Len(elicited) : event.currentIntent.slots[elicited[i]] = None
    /\ ( /\ pc = "done"
         /\ received.currentIntent.name = "recommendPortfolio"
         /\ received.invocationSource = "DialogCodeHook" )
         => \/ IsDelegate(response)
            \/ /\ IsElicit(response)
               /\ elicited # <<>>
               /\ elicited[Len(elicited)] = response.dialogAction.slotToElicit.s
               /\ Present(SentSlots[elicited[Len(elicited)]])

C10_Witness ==
    /\ pc = "done"
    /\ elicited = <<"age", "investmentAmount", "riskLevel">>
    /\ IsDelegate(response)

=============================================================================
